---- MODULE Spec2Model ----
(***************************************************************************)
(* Model of the JSON-to-CSV core of the Brazil oil & gas production        *)
(* scraper (src/scraper/scraper.py): extract_data_from_json,               *)
(* map_data_row_to_csv, convert_timestamp_to_date, write_csv_file,         *)
(* process_json_to_csv (the definition at line 687, which replaces the one *)
(* at line 597 when the module is loaded) and the tail of run.             *)
(*                                                                         *)
(* Representation.                                                         *)
(*  - A JSON scalar is a record [k, hi, lo, s]: k is "int", "float",       *)
(*    "str" or "null".  A number is held exactly, in tenths, as            *)
(*    hi * 10^8 + lo (TLC integers are 32 bits wide and epoch-millisecond  *)
(*    values are not): 120.5 is lo = 1205, the integer 5 is lo = 50.       *)
(*    hi >= 0, and 0 <= lo < 10^8 whenever hi > 0.                         *)
(*  - A string is a sequence of one-character strings; the letter a-acute  *)
(*    is the character "a_acute".  '' is the empty sequence.               *)
(*  - Python's None, where a function returns it, is the value Null.       *)
(***************************************************************************)
EXTENDS Integers, Sequences, FiniteSets, TLC

\* ------------------------------------------------------------- scalars

Null == [k |-> "null", hi |-> 0, lo |-> 0, s |-> <<>>]
StrV(chars) == [k |-> "str", hi |-> 0, lo |-> 0, s |-> chars]
Empty == StrV(<<>>)
IntV(n) == [k |-> "int", hi |-> 0, lo |-> 10 * n, s |-> <<>>]
FloatV(tenths) == [k |-> "float", hi |-> 0, lo |-> tenths, s |-> <<>>]
Num(kind, h, l) == [k |-> kind, hi |-> h, lo |-> l, s |-> <<>>]

IsInt(v) == v.k = "int"
IsNumber(v) == v.k \in {"int", "float"}
IsStr(v) == v.k = "str"

\* a > b, a == b and a == 0 on numbers (Python compares int and float by value)
Gt(a, b) == a.hi > b.hi \/ (a.hi = b.hi /\ a.lo > b.lo)
NumEq(a, b) == a.hi = b.hi /\ a.lo = b.lo
IsZero(a) == a.hi = 0 /\ a.lo = 0

\* val == int(val)
IsIntegral(a) == a.lo % 10 = 0

\* Python truthiness of a scalar
Truthy(v) ==
    CASE v.k = "null" -> FALSE
      [] v.k = "str" -> Len(v.s) > 0
      [] OTHER -> ~IsZero(v)

\* ------------------------------------------------------------- strings

DigitChars == <<"0", "1", "2", "3", "4", "5", "6", "7", "8", "9">>
UpperChars == <<"A", "B", "C", "D", "E", "F", "G", "H", "I", "J", "K", "L", "M",
                "N", "O", "P", "Q", "R", "S", "T", "U", "V", "W", "X", "Y", "Z",
                "A_acute">>
LowerChars == <<"a", "b", "c", "d", "e", "f", "g", "h", "i", "j", "k", "l", "m",
                "n", "o", "p", "q", "r", "s", "t", "u", "v", "w", "x", "y", "z",
                "a_acute">>

IsDigit(c) == \E d \in 1..10 : DigitChars[d] = c
DigitVal(c) == (CHOOSE d \in 1..10 : DigitChars[d] = c) - 1

LowerChar(c) ==
    IF \E u \in 1..Len(UpperChars) : UpperChars[u] = c
    THEN LowerChars[CHOOSE u \in 1..Len(UpperChars) : UpperChars[u] = c]
    ELSE c

\* the mutation of Lower that changes nothing (a case-sensitive test)
LowerNot(chars) == chars

\* str.lower()
Lower(chars) == [p \in 1..Len(chars) |-> LowerChar(chars[p])]

\* sub in chars
Contains(chars, sub) ==
    \E p \in 1..(Len(chars) - Len(sub) + 1) :
        SubSeq(chars, p, p + Len(sub) - 1) = sub

\* str.replace(',', '')
RECURSIVE RemoveCommas(_)
RemoveCommas(chars) ==
    IF chars = <<>> THEN <<>>
    ELSE IF Head(chars) = "," THEN RemoveCommas(Tail(chars))
    ELSE <<Head(chars)>> \o RemoveCommas(Tail(chars))

\* str.strip()
RECURSIVE StripLeft(_)
StripLeft(chars) ==
    IF chars # <<>> /\ Head(chars) = " " THEN StripLeft(Tail(chars)) ELSE chars

RECURSIVE StripRight(_)
StripRight(chars) ==
    IF chars # <<>> /\ chars[Len(chars)] = " "
    THEN StripRight(SubSeq(chars, 1, Len(chars) - 1))
    ELSE chars

Strip(chars) == StripRight(StripLeft(chars))

AllDigits(chars) == \A p \in 1..Len(chars) : IsDigit(chars[p])

RECURSIVE DigitsValue(_)
DigitsValue(chars) ==
    IF chars = <<>> THEN 0
    ELSE 10 * DigitsValue(SubSeq(chars, 1, Len(chars) - 1))
         + DigitVal(chars[Len(chars)])

\* the position of the first "." of body, or one past its end
DotPosition(body) ==
    LET dots == {p \in 1..Len(body) : body[p] = "."}
    IN  IF dots = {} THEN Len(body) + 1
        ELSE CHOOSE p \in dots : \A q \in dots : p <= q

\* the integer digits ip and the fraction digits fp of an unsigned literal
ParseDigits(ip, fp) ==
    IF /\ Len(ip) + Len(fp) > 0
       /\ AllDigits(ip) /\ AllDigits(fp)
       /\ \A p \in 2..Len(fp) : fp[p] = "0"
    THEN [ok |-> TRUE,
          lo |-> 10 * DigitsValue(ip) + (IF fp = <<>> THEN 0 ELSE DigitVal(fp[1]))]
    ELSE [ok |-> FALSE, lo |-> 0]

ParseUnsigned(body, dot) ==
    ParseDigits(SubSeq(body, 1, dot - 1), SubSeq(body, dot + 1, Len(body)))

Negated(parsed) == [ok |-> parsed.ok, lo |-> -parsed.lo]

ParseStripped(t) ==
    IF t # <<>> /\ Head(t) = "-"
    THEN Negated(ParseUnsigned(Tail(t), DotPosition(Tail(t))))
    ELSE ParseUnsigned(t, DotPosition(t))

\* float(text) for the decimal notation [-]digits[.digits] (surrounding blanks
\* allowed, as in Python), exact to one fractional digit, in tenths; anything
\* else is a ValueError (ok = FALSE).  Exponent, inf and nan notations are not
\* modelled and are kept out of the inputs.
ParseFloat(text) == ParseStripped(Strip(text))

\* the decimal digits of n >= 0
RECURSIVE DigitsOf(_)
DigitsOf(n) ==
    IF n < 10 THEN <<DigitChars[n + 1]>>
    ELSE DigitsOf(n \div 10) \o <<DigitChars[(n % 10) + 1]>>

\* the decimal digits of n >= 0, zero-padded on the left to `width`
RECURSIVE PadDigits(_, _)
PadDigits(n, width) ==
    IF width = 0 THEN <<>>
    ELSE PadDigits(n \div 10, width - 1) \o <<DigitChars[(n % 10) + 1]>>

\* str(value) of a number: an int in decimal, a float with its one fractional
\* digit (str(120.5) = '120.5', str(5.0) = '5.0')
FormatNumber(v) ==
    LET neg == v.hi = 0 /\ v.lo < 0
        mag == IF neg THEN -v.lo ELSE v.lo
        units == IF v.hi > 0
                 THEN DigitsOf(v.hi) \o PadDigits(mag \div 10, 7)
                 ELSE DigitsOf(mag \div 10)
        sign == IF neg THEN <<"-">> ELSE <<>>
    IN  IF v.k = "int" THEN sign \o units
        ELSE sign \o units \o <<".">> \o <<DigitChars[(mag % 10) + 1]>>

\* ------------------------------------------------ convert_timestamp_to_date

\* 1000000000000 (line 419, 421, 501) and 1e10 (line 643), in tenths
EpochMsThreshold == Num("int", 100000, 0)
SecondsCeiling == Num("float", 1000, 0)

\* datetime.MAXYEAR: fromtimestamp raises beyond it
MaxYear == 9999

\* The proleptic Gregorian date of a day number (days since 1970-01-01), as
\* datetime computes it: from the month index mp (March = 0), ...
CivilOfMonth(y, doy, mp) ==
    [year |-> y + (IF mp >= 10 THEN 1 ELSE 0),
     month |-> IF mp < 10 THEN mp + 3 ELSE mp - 9,
     day |-> doy - (153 * mp + 2) \div 5 + 1]

\* ... the day of the March-based year, ...
CivilOfDay(y, doy) == CivilOfMonth(y, doy, (5 * doy + 2) \div 153)

\* ... the year of the 400-year era, ...
CivilOfYear(era, doe, yoe) ==
    CivilOfDay(yoe + era * 400, doe - (365 * yoe + yoe \div 4 - yoe \div 100))

\* ... and the day of the era
CivilOfEra(era, doe) ==
    CivilOfYear(era, doe,
        (doe - doe \div 1460 + doe \div 36524 - doe \div 146096) \div 365)

CivilFromDays(days) ==
    CivilOfEra((days + 719468) \div 146097, (days + 719468) % 146097)

\* dt.strftime('%Y-%m-%d'), or '' where fromtimestamp raises
FormatDate(date) ==
    IF date.year > MaxYear THEN <<>>
    ELSE PadDigits(date.year, 4) \o <<"-">> \o PadDigits(date.month, 2)
            \o <<"-">> \o PadDigits(date.day, 2)

\* lines 640-649: the timestamp is read as milliseconds above 1e10 and as
\* seconds otherwise; the day is taken in UTC (datetime.fromtimestamp uses the
\* local zone).
ConvertNumber(timestamp_num) ==
    IF ~Gt(timestamp_num, Num("int", 0, 0)) THEN <<>>
    ELSE IF Gt(timestamp_num, SecondsCeiling)
    THEN FormatDate(CivilFromDays(
            (timestamp_num.hi * 100 + timestamp_num.lo \div 1000000) \div 864))
    ELSE FormatDate(CivilFromDays(
            (timestamp_num.hi * 100000 + timestamp_num.lo \div 1000) \div 864))

\* lines 630-636: a string that is a number, or a date
ConvertString(text, parsed) ==
    IF parsed.ok THEN ConvertNumber(Num("float", 0, parsed.lo))
    ELSE IF Len(text) >= 10 /\ Contains(text, <<"-">>) THEN SubSeq(text, 1, 10)
    ELSE <<>>

convert_timestamp_to_date(timestamp_input) ==
    IF ~Truthy(timestamp_input) THEN <<>>
    ELSE IF IsStr(timestamp_input)
    THEN ConvertString(timestamp_input.s, ParseFloat(timestamp_input.s))
    ELSE ConvertNumber(Num("float", timestamp_input.hi, timestamp_input.lo))

\* ------------------------------------------------------ map_data_row_to_csv

\* `val > 100` in the summary-row test
SummaryIntFloor == 100
\* `row_length >= 9`
DetailMinLength == 9
\* `range(6, row_length)`
ProductionStart == 6
\* `1 <= val <= 1000` for a quantity, `0 <= val < 1000` for a code index
QuantityMax == 1000
\* `range(7, min(row_length, 11))`
CodeScanEnd == 11

\* data_row[index], or None when the row is too short or holds null there
get_value(data_row, index) ==
    IF Len(data_row) > index /\ data_row[index + 1] # Null
    THEN data_row[index + 1]
    ELSE Null

\* the mutation of lookup_text_direct that leaves out `0 <=`, so that a
\* negative index counts from the end of the dictionary as Python indexing does
lookup_text_direct_unfloored(index, dict_key, value_dicts) ==
    IF index # Null /\ dict_key \in DOMAIN value_dicts
    THEN IF /\ IsInt(index)
            /\ index.hi = 0
            /\ index.lo \div 10 < Len(value_dicts[dict_key])
            /\ index.lo \div 10 >= -Len(value_dicts[dict_key])
         THEN LET text_value ==
                    IF index.lo >= 0
                    THEN value_dicts[dict_key][index.lo \div 10 + 1]
                    ELSE value_dicts[dict_key]
                            [Len(value_dicts[dict_key]) + index.lo \div 10 + 1]
              IN  IF text_value # <<>> /\ Strip(text_value) # <<>>
                  THEN text_value
                  ELSE <<>>
         ELSE <<>>
    ELSE <<>>

\* the text at value_dicts[dict_key][index], or '' (a string, as chars)
lookup_text_direct(index, dict_key, value_dicts) ==
    IF index # Null /\ dict_key \in DOMAIN value_dicts
    THEN IF /\ IsInt(index)
            /\ ~Gt(Num("int", 0, 0), index)
            /\ index.hi = 0
            /\ index.lo \div 10 < Len(value_dicts[dict_key])
         THEN LET text_value == value_dicts[dict_key][index.lo \div 10 + 1]
              IN  IF text_value # <<>> /\ Strip(text_value) # <<>>
                  THEN text_value
                  ELSE <<>>
         ELSE <<>>
    ELSE <<>>

\* the mutation of NonZero that returns zero as the number it is
NonZeroKept(num) == num

\* line 458: `num if num != 0 else ''`
NonZero(num) == IF IsZero(num) THEN Empty ELSE num

\* lines 450-453: float(clean_value), or int(float(clean_value)); a
\* ValueError gives ''
CoerceParsed(parsed, asFloat) ==
    IF ~parsed.ok THEN Empty
    ELSE IF asFloat THEN NonZero(Num("float", 0, parsed.lo))
    ELSE NonZero(Num("int", 0, parsed.lo - (parsed.lo % 10)))

CoerceString(clean_value) ==
    CoerceParsed(ParseFloat(clean_value),
                 Contains(clean_value, <<".">>)
                    \/ Contains(Lower(clean_value), <<"e">>))

\* the mutation of get_numeric without the `elif isinstance(value, (int,
\* float))` branch: a number falls to `return ''`
get_numeric_of_text(value) ==
    IF value = Null THEN Empty
    ELSE IF IsStr(value) THEN CoerceString(RemoveCommas(value.s))
    ELSE Empty

\* numeric coercion: the number, or '' for None, a string that does not parse
\* and zero
get_numeric(value) ==
    IF value = Null THEN Empty
    ELSE IF IsStr(value) THEN CoerceString(RemoveCommas(value.s))
    ELSE NonZero(value)

\* the dictionary initialised at line 463
InitCsvRow(timestamp, row_date) ==
    [scrape_datetime |-> timestamp, date |-> row_date, installation |-> <<>>,
     oil_production |-> Empty, gas_production |-> Empty,
     oil_equivalents_boe |-> Empty, operator |-> <<>>, type |-> <<>>,
     estado |-> <<>>, city |-> <<>>, atendimento_campo |-> <<>>, campo |-> <<>>,
     quantity |-> Empty, code |-> <<>>, status |-> <<>>]

\* all(isinstance(val, (int, float, str)) and not isinstance(val, int)
\*     or val > 100 for val in data_row), evaluated left to right:
\* "true", "false", or "raise" when `None > 100` is reached first
RECURSIVE SummaryTest(_)
SummaryTest(vals) ==
    IF vals = <<>> THEN "true"
    ELSE LET val == Head(vals)
         IN  IF val.k \in {"float", "str"} THEN SummaryTest(Tail(vals))
             ELSE IF val.k = "null" THEN "raise"
             ELSE IF Gt(val, IntV(SummaryIntFloor)) THEN SummaryTest(Tail(vals))
             ELSE "false"

FloatOfParsed(parsed) == [ok |-> parsed.ok, hi |-> 0, lo |-> parsed.lo]

\* float(str(val).replace(',', '')): [ok, hi, lo]; a number keeps its value
ToFloat(val) ==
    IF IsNumber(val) THEN [ok |-> TRUE, hi |-> val.hi, lo |-> val.lo]
    ELSE FloatOfParsed(ParseFloat(RemoveCommas(val.s)))

\* lines 535-541: the list with val's number appended when it has one that is
\* not zero
WithProduction(val, asFloat, rest) ==
    IF val.k \in {"int", "float", "str"}
          /\ asFloat.ok /\ ~(asFloat.hi = 0 /\ asFloat.lo = 0)
    THEN <<Num("float", asFloat.hi, asFloat.lo)>> \o rest
    ELSE rest

\* the production_values list built by the loop at line 533, from 0-based
\* index i on
RECURSIVE ProductionValues(_, _)
ProductionValues(data_row, i) ==
    IF i >= Len(data_row) THEN <<>>
    ELSE WithProduction(get_value(data_row, i), ToFloat(get_value(data_row, i)),
                        ProductionValues(data_row, i + 1))

\* `1 <= val <= 1000 and val == int(val)`
IsQuantity(val) ==
    /\ ~Gt(IntV(1), val)
    /\ ~Gt(val, IntV(QuantityMax))
    /\ IsIntegral(val)

\* the mutation of QuantityIdx whose scan has no `break`: the last candidate
QuantityIdxLast(production_values) ==
    LET hits == {p \in 1..Len(production_values) : IsQuantity(production_values[p])}
    IN  IF hits = {} THEN -1
        ELSE (CHOOSE p \in hits : \A q \in hits : p >= q) - 1

\* the 0-based position of the first quantity candidate, or -1
QuantityIdx(production_values) ==
    LET hits == {p \in 1..Len(production_values) : IsQuantity(production_values[p])}
    IN  IF hits = {} THEN -1
        ELSE (CHOOSE p \in hits : \A q \in hits : p <= q) - 1

\* the mutation of AssignProduction whose outer test is
\* `len(production_values) >= 2`
AssignProductionFromTwo(csv_row, production_values) ==
    LET quantity_idx == QuantityIdx(production_values)
        before_qty == SubSeq(production_values, 1, quantity_idx)
        after_qty == SubSeq(production_values, quantity_idx + 2,
                            Len(production_values))
        isGas == Contains(Lower(csv_row.type), <<"g", "a_acute", "s">>)
                    \/ Contains(Lower(csv_row.type), <<"g", "a", "s">>)
        qval == production_values[quantity_idx + 1]
        withQty == [csv_row EXCEPT !.quantity = Num("int", qval.hi, qval.lo)]
        withOilGas ==
            IF Len(before_qty) >= 2
            THEN [withQty EXCEPT !.oil_production = before_qty[1],
                                 !.gas_production = before_qty[2]]
            ELSE IF Len(before_qty) = 1
            THEN IF isGas
                 THEN [withQty EXCEPT !.gas_production = before_qty[1]]
                 ELSE [withQty EXCEPT !.oil_production = before_qty[1]]
            ELSE withQty
    IN  IF Len(production_values) < 2 THEN csv_row
        ELSE IF quantity_idx >= 0
        THEN IF Len(after_qty) >= 1
             THEN [withOilGas EXCEPT !.oil_equivalents_boe = after_qty[1]]
             ELSE withOilGas
        ELSE IF Len(production_values) >= 3
        THEN [csv_row EXCEPT !.oil_production = production_values[1],
                             !.gas_production = production_values[2],
                             !.oil_equivalents_boe = production_values[3]]
        ELSE csv_row

\* lines 544-577: the row with quantity, oil, gas and BOE assigned
AssignProduction(csv_row, production_values) ==
    LET quantity_idx == QuantityIdx(production_values)
        before_qty == SubSeq(production_values, 1, quantity_idx)
        after_qty == SubSeq(production_values, quantity_idx + 2,
                            Len(production_values))
        isGas == Contains(Lower(csv_row.type), <<"g", "a_acute", "s">>)
                    \/ Contains(Lower(csv_row.type), <<"g", "a", "s">>)
        qval == production_values[quantity_idx + 1]
        withQty == [csv_row EXCEPT !.quantity = Num("int", qval.hi, qval.lo)]
        withOilGas ==
            IF Len(before_qty) >= 2
            THEN [withQty EXCEPT !.oil_production = before_qty[1],
                                 !.gas_production = before_qty[2]]
            ELSE IF Len(before_qty) = 1
            THEN IF isGas
                 THEN [withQty EXCEPT !.gas_production = before_qty[1]]
                 ELSE [withQty EXCEPT !.oil_production = before_qty[1]]
            ELSE withQty
    IN  IF Len(production_values) < 3 THEN csv_row
        ELSE IF quantity_idx >= 0
        THEN IF Len(after_qty) >= 1
             THEN [withOilGas EXCEPT !.oil_equivalents_boe = after_qty[1]]
             ELSE withOilGas
        ELSE [csv_row EXCEPT !.oil_production = production_values[1],
                             !.gas_production = production_values[2],
                             !.oil_equivalents_boe = production_values[3]]

\* `isinstance(val, int) and 0 <= val < 1000` at line 582
IsCodeIndex(val) ==
    /\ IsInt(val)
    /\ ~Gt(IntV(0), val)
    /\ Gt(IntV(QuantityMax), val)

\* lines 580-588: code from index 8 through D8, status from index 9 through D9
AssignCodes(csv_row, data_row, value_dicts) ==
    LET inScan(i) == i < CodeScanEnd /\ i < Len(data_row)
                        /\ IsCodeIndex(get_value(data_row, i))
        withCode == IF inScan(8)
                    THEN [csv_row EXCEPT !.code =
                            lookup_text_direct(get_value(data_row, 8), "D8", value_dicts)]
                    ELSE csv_row
    IN  IF inScan(9)
        THEN [withCode EXCEPT !.status =
                lookup_text_direct(get_value(data_row, 9), "D9", value_dicts)]
        ELSE withCode

\* lines 519-525: the seven dictionary-coded fields
AssignFields(csv_row, data_row, value_dicts) ==
    [csv_row EXCEPT
        !.installation = lookup_text_direct(get_value(data_row, 0), "D0", value_dicts),
        !.operator = lookup_text_direct(get_value(data_row, 1), "D1", value_dicts),
        !.type = lookup_text_direct(get_value(data_row, 2), "D2", value_dicts),
        !.estado = lookup_text_direct(get_value(data_row, 3), "D3", value_dicts),
        !.city = lookup_text_direct(get_value(data_row, 4), "D4", value_dicts),
        !.atendimento_campo = lookup_text_direct(get_value(data_row, 5), "D5", value_dicts),
        !.campo = lookup_text_direct(get_value(data_row, 6), "D6", value_dicts)]

\* What a call returns: a record, None, or an exception.  `csv` is the record
\* when outcome = "record" and the initial row otherwise.
Returned(csv_row) == [outcome |-> "record", csv |-> csv_row]
Discarded(csv_row) == [outcome |-> "None", csv |-> csv_row]
Raised(csv_row) == [outcome |-> "raise", csv |-> csv_row]

\* the mutation of SummaryRow that writes element 3 as quantity and element 2
\* as BOE
SummaryRowSwapped(csv_row, data_row) ==
    [csv_row EXCEPT !.oil_production = get_numeric(data_row[1]),
                    !.gas_production = get_numeric(data_row[2]),
                    !.quantity = get_numeric(data_row[4]),
                    !.oil_equivalents_boe = get_numeric(data_row[3])]

\* lines 491-497: the summary row
SummaryRow(csv_row, data_row) ==
    [csv_row EXCEPT !.oil_production = get_numeric(data_row[1]),
                    !.gas_production = get_numeric(data_row[2]),
                    !.quantity = get_numeric(data_row[3]),
                    !.oil_equivalents_boe = get_numeric(data_row[4])]

\* lines 502-507: the timestamped summary row
TimestampedSummaryRow(csv_row, data_row) ==
    [csv_row EXCEPT !.date = convert_timestamp_to_date(get_value(data_row, 0)),
                    !.oil_production = get_numeric(data_row[2]),
                    !.gas_production = get_numeric(data_row[3]),
                    !.oil_equivalents_boe = get_numeric(data_row[4])]

\* the mutation of Accept that returns every detail row with an installation
AcceptAll(csv_row, coded) == Returned(coded)

\* lines 590-594: the final acceptance
Accept(csv_row, coded) ==
    IF /\ coded.installation # <<>>
       /\ \/ Truthy(coded.oil_production)
          \/ Truthy(coded.gas_production)
          \/ Truthy(coded.oil_equivalents_boe)
    THEN Returned(coded)
    ELSE Discarded(csv_row)

\* the mutation of DetailOfFields whose scan starts after the field indices,
\* at index 7
DetailOfFieldsScanningFrom7(csv_row, fields, data_row, value_dicts) ==
    IF fields.installation = <<>> THEN Discarded(csv_row)
    ELSE Accept(csv_row,
            AssignCodes(
                AssignProduction(fields,
                    ProductionValues(data_row, ProductionStart + 1)),
                data_row, value_dicts))

\* lines 527-592: the detail row once its dictionary fields are resolved
DetailOfFields(csv_row, fields, data_row, value_dicts) ==
    IF fields.installation = <<>> THEN Discarded(csv_row)
    ELSE Accept(csv_row,
            AssignCodes(
                AssignProduction(fields,
                    ProductionValues(data_row, ProductionStart)),
                data_row, value_dicts))

\* lines 512-592: the detail row
DetailRow(csv_row, data_row, value_dicts) ==
    IF ~IsInt(get_value(data_row, 0)) \/ Gt(IntV(0), get_value(data_row, 0))
    THEN Discarded(csv_row)
    ELSE DetailOfFields(csv_row, AssignFields(csv_row, data_row, value_dicts),
                        data_row, value_dicts)

\* the mutation of map_data_row_to_csv that keeps a single timestamp as a
\* record carrying its date
map_data_row_to_csv_keeping_markers(data_row, value_dicts, timestamp, row_date) ==
    LET csv_row == InitCsvRow(timestamp, row_date)
        row_length == Len(data_row)
        first_val == get_value(data_row, 0)
    IN  IF row_length = 0 THEN Discarded(csv_row)
        ELSE IF row_length = 1
        THEN IF IsNumber(first_val) /\ Gt(first_val, EpochMsThreshold)
             THEN Returned([csv_row EXCEPT
                              !.date = convert_timestamp_to_date(first_val)])
             ELSE Discarded(csv_row)
        ELSE IF row_length = 4 /\ SummaryTest(data_row) = "raise"
        THEN Raised(csv_row)
        ELSE IF row_length = 4 /\ SummaryTest(data_row) = "true"
        THEN Returned(SummaryRow(csv_row, data_row))
        ELSE IF IsNumber(first_val) /\ Gt(first_val, EpochMsThreshold)
        THEN IF row_length = 4
             THEN Returned(TimestampedSummaryRow(csv_row, data_row))
             ELSE Discarded(csv_row)
        ELSE IF row_length >= DetailMinLength
        THEN DetailRow(csv_row, data_row, value_dicts)
        ELSE Discarded(csv_row)

\* the mutation of map_data_row_to_csv whose timestamped-summary branch tests
\* `row_length >= 4`
map_data_row_to_csv_long_timestamped(data_row, value_dicts, timestamp, row_date) ==
    LET csv_row == InitCsvRow(timestamp, row_date)
        row_length == Len(data_row)
        first_val == get_value(data_row, 0)
    IN  IF row_length = 0 THEN Discarded(csv_row)
        ELSE IF row_length = 1 THEN Discarded(csv_row)
        ELSE IF row_length = 4 /\ SummaryTest(data_row) = "raise"
        THEN Raised(csv_row)
        ELSE IF row_length = 4 /\ SummaryTest(data_row) = "true"
        THEN Returned(SummaryRow(csv_row, data_row))
        ELSE IF IsNumber(first_val) /\ Gt(first_val, EpochMsThreshold)
        THEN IF row_length >= 4
             THEN Returned(TimestampedSummaryRow(csv_row, data_row))
             ELSE Discarded(csv_row)
        ELSE IF row_length >= DetailMinLength
        THEN DetailRow(csv_row, data_row, value_dicts)
        ELSE Discarded(csv_row)

map_data_row_to_csv(data_row, value_dicts, timestamp, row_date) ==
    LET csv_row == InitCsvRow(timestamp, row_date)
        row_length == Len(data_row)
        first_val == get_value(data_row, 0)
    IN  IF row_length = 0 THEN Discarded(csv_row)
        ELSE IF row_length = 1 THEN Discarded(csv_row)
        ELSE IF row_length = 4 /\ SummaryTest(data_row) = "raise"
        THEN Raised(csv_row)
        ELSE IF row_length = 4 /\ SummaryTest(data_row) = "true"
        THEN Returned(SummaryRow(csv_row, data_row))
        ELSE IF IsNumber(first_val) /\ Gt(first_val, EpochMsThreshold)
        THEN IF row_length = 4
             THEN Returned(TimestampedSummaryRow(csv_row, data_row))
             ELSE Discarded(csv_row)
        ELSE IF row_length >= DetailMinLength
        THEN DetailRow(csv_row, data_row, value_dicts)
        ELSE Discarded(csv_row)

\* --------------------------------------------------- extract_data_from_json

\* The rows of one group: row['C'] of every entry that has a 'C'
RECURSIVE GroupRows(_)
GroupRows(entries) ==
    IF entries = <<>> THEN <<>>
    ELSE IF Head(entries).hasC
    THEN <<Head(entries).C>> \o GroupRows(Tail(entries))
    ELSE GroupRows(Tail(entries))

\* the mutation of PageRows that reads DM1 before DM0
RECURSIVE PageRowsDetailFirst(_)
PageRowsDetailFirst(ph_list) ==
    IF ph_list = <<>> THEN <<>>
    ELSE LET ph == Head(ph_list)
         IN  (IF ph.hasDM1 THEN GroupRows(ph.DM1) ELSE <<>>)
                \o (IF ph.hasDM0 THEN GroupRows(ph.DM0) ELSE <<>>)
                \o PageRowsDetailFirst(Tail(ph_list))

\* lines 398-412: over the page blocks in order, DM0's rows then DM1's
RECURSIVE PageRows(_)
PageRows(ph_list) ==
    IF ph_list = <<>> THEN <<>>
    ELSE LET ph == Head(ph_list)
         IN  (IF ph.hasDM0 THEN GroupRows(ph.DM0) ELSE <<>>)
                \o (IF ph.hasDM1 THEN GroupRows(ph.DM1) ELSE <<>>)
                \o PageRows(Tail(ph_list))

\* the mutation of NextDate that forgets the date on a row without a timestamp
NextDateNoCarry(current_date, row_data) ==
    IF /\ (Len(row_data) = 1 \/ Len(row_data) >= 4)
       /\ IsNumber(row_data[1]) /\ Gt(row_data[1], EpochMsThreshold)
    THEN convert_timestamp_to_date(row_data[1])
    ELSE <<>>

\* lines 419-422: the running date after row_data
NextDate(current_date, row_data) ==
    IF /\ Len(row_data) = 1
       /\ IsNumber(row_data[1]) /\ Gt(row_data[1], EpochMsThreshold)
    THEN convert_timestamp_to_date(row_data[1])
    ELSE IF /\ Len(row_data) >= 4
            /\ IsNumber(row_data[1]) /\ Gt(row_data[1], EpochMsThreshold)
    THEN convert_timestamp_to_date(row_data[1])
    ELSE current_date

\* lines 414-423: the forward scan, from running date current_date
RECURSIVE RowDateAssignments(_, _)
RowDateAssignments(data_rows, current_date) ==
    IF data_rows = <<>> THEN <<>>
    ELSE LET d == NextDate(current_date, Head(data_rows))
         IN  <<d>> \o RowDateAssignments(Tail(data_rows), d)

\* What the call gives: raised (ValueError), or the four results
ExtractFailed ==
    [raised |-> TRUE, data_rows |-> <<>>, value_dicts |-> <<>>,
     timestamp |-> <<>>, row_date_assignments |-> <<>>]

\* the mutation of extract_data_from_json that takes a payload without
\* results or without data-shape blocks for a payload without rows
extract_data_from_json_lenient(json_data) ==
    LET bad == json_data.results # "present" \/ json_data.DS # "present"
        data_rows == IF bad THEN <<>> ELSE PageRows(json_data.ds_list[1].PH)
    IN  [raised |-> FALSE,
         data_rows |-> data_rows,
         value_dicts |-> IF bad THEN <<>> ELSE json_data.ds_list[1].ValueDicts,
         timestamp |-> json_data.timestamp,
         row_date_assignments |-> RowDateAssignments(data_rows, <<>>)]

\* json_data.results and json_data.DS are "missing", "empty" or "present";
\* json_data.ds_list is the list of data-shape blocks when DS is present
extract_data_from_json(json_data) ==
    IF json_data.results # "present" THEN ExtractFailed
    ELSE IF json_data.DS # "present" THEN ExtractFailed
    ELSE LET data_rows == PageRows(json_data.ds_list[1].PH)
         IN  [raised |-> FALSE,
              data_rows |-> data_rows,
              value_dicts |-> json_data.ds_list[1].ValueDicts,
              timestamp |-> json_data.timestamp,
              row_date_assignments |-> RowDateAssignments(data_rows, <<>>)]

\* ------------------------------------------------------------ write_csv_file

\* the header row: one cell per field name, in the order of line 664
Header ==
    << <<"scrape_datetime">>, <<"date">>, <<"installation">>,
       <<"oil_production">>, <<"gas_production">>, <<"oil_equivalents_boe">>,
       <<"operator">>, <<"type">>, <<"estado">>, <<"city">>,
       <<"atendimento_campo">>, <<"campo">>, <<"quantity">>, <<"code">>,
       <<"status">> >>

\* lines 680-683 on a numeric field: '' stays '', a number becomes str(number)
CleanNumber(value) == IF value = Empty THEN <<>> ELSE FormatNumber(value)

\* lines 676-684: the cells of one record, in header order
CleanRow(row) ==
    << row.scrape_datetime, row.date, row.installation,
       CleanNumber(row.oil_production), CleanNumber(row.gas_production),
       CleanNumber(row.oil_equivalents_boe),
       row.operator, row.type, row.estado, row.city,
       row.atendimento_campo, row.campo, CleanNumber(row.quantity),
       row.code, row.status >>

\* -------------------------------------------------------------------- inputs

\* the longest row vector and the most row vectors of a payload
MaxRowLength == 10
MaxRows == 3

\* 1700000000000 (2023-11-14) and 1700086400000 (2023-11-15)
TS1 == Num("int", 170000, 0)
TS2 == Num("int", 170008, 64000000)
TS2f == Num("float", 170008, 64000000)

\* a response with every dictionary, and one with only D0 and D2
DictsFull ==
    [D0 |-> << <<"P", "1">>, <<" ", " ">>, <<>> >>,
     D1 |-> << <<"O", "p">> >>,
     D2 |-> << <<"G", "a_acute", "s">>, <<"O", "i", "l">>, <<"G", "A", "S">> >>,
     D3 |-> << <<"R", "J">> >>,
     D4 |-> << <<"R", "i", "o">> >>,
     D5 |-> << <<"S">> >>,
     D6 |-> << <<"B", "C">> >>,
     D8 |-> << <<"C", "8">> >>,
     D9 |-> << <<"O", "K">> >>]
DictsSparse ==
    [D0 |-> << <<"P", "1">> >>,
     D2 |-> << <<"O", "i", "l">>, <<"g", "a", "s">> >>]
DictChoices == {DictsFull, DictsSparse}

Timestamp0 == <<"2", "0", "2", "4">>
RowDate0 == <<"2", "0", "0", "0", "-", "0", "2", "-", "2", "9">>

\* the elements of the rows of length 0..4
ShortVals ==
    {IntV(0), IntV(5), IntV(100), IntV(101), TS1,
     FloatV(0), FloatV(1205), TS2f,
     StrV(<<"0">>), StrV(<<"1", ",", "2", "0", "0">>), StrV(<<"x">>),
     Null}
ShortRows == UNION {[1..n -> ShortVals] : n \in 0..4}

\* elements 0..5 of the longer rows: the installation index varies over valid,
\* blank, negative, out of bounds, non-integer, null and timestamp; the type
\* index over the entries of D2
Prefix(inst, typ) == <<inst, IntV(0), typ, IntV(0), IntV(0), IntV(0)>>
TypedPrefixes == {Prefix(IntV(0), IntV(t)) : t \in 0..2}
Prefixes ==
    TypedPrefixes
        \cup {Prefix(x, IntV(0)) :
                x \in {IntV(1), IntV(-1), IntV(9), FloatV(0), Null, TS1}}

\* the elements from index 6 on
TailVals ==
    {IntV(0), IntV(3), FloatV(900), FloatV(1205), Null,
     StrV(<<"1", ",", "2", "0", "0", ".", "5">>)}
LongRows(prefixes) ==
    {p \o t : p \in prefixes,
              t \in UNION {[1..n -> TailVals] : n \in 0..(MaxRowLength - 6)}}

\* the calls of the row decoder: every row under the full dictionaries, the
\* rows with a valid installation also under the sparse ones
DecoderCall(r, d) ==
    [data_row |-> r, value_dicts |-> d, timestamp |-> Timestamp0,
     row_date |-> RowDate0]
DecoderRows(d) ==
    IF d = DictsFull THEN ShortRows \cup LongRows(Prefixes)
    ELSE LongRows(TypedPrefixes)

\* the index values and dictionary names of a lookup
LookupIndexes ==
    {IntV(-1), IntV(0), IntV(1), IntV(2), IntV(3), IntV(9), TS1,
     FloatV(0), FloatV(10), FloatV(5), StrV(<<"0">>), Empty, Null}
LookupKeys == {"D0", "D1", "D2", "D3", "D4", "D5", "D6", "D7", "D8", "D9", "DX"}

\* the values handed to a single numeric coercion: null, numbers of both
\* kinds (zero, negative, whole, fractional, epoch-sized) and every text of up
\* to MaxTextLen characters over NumericChars that is exact in tenths
MaxTextLen == 3
NumericChars == {"0", "1", "5", ".", ",", "-", " ", "x"}
ExactInTenths(chars) ==
    \A p \in 1..Len(chars) : \A q \in (p + 2)..Len(chars) :
        ~(chars[p] = "." /\ chars[q] \in {"1", "5"})
NumericTexts ==
    {t \in UNION {[1..n -> NumericChars] : n \in 0..MaxTextLen} :
        ExactInTenths(RemoveCommas(t))}
NumericNumbers ==
    {IntV(0), IntV(1), IntV(-1), IntV(100), IntV(1000), TS1,
     FloatV(0), FloatV(5), FloatV(-5), FloatV(10), FloatV(1205), TS2f}
NumericValues ==
    {Null} \cup NumericNumbers \cup {StrV(t) : t \in NumericTexts}

\* the row vectors of the payloads of a run
DetailOf(tail) == Prefix(IntV(0), IntV(0)) \o tail
BatchRows ==
    {<<TS1>>,
     <<TS2, FloatV(15)>>,
     <<TS2, FloatV(15), FloatV(25)>>,
     <<FloatV(1205), FloatV(302), FloatV(50), FloatV(8001)>>,
     <<TS2, FloatV(1205), FloatV(302), FloatV(8001)>>,
     <<Null, FloatV(15), FloatV(25), FloatV(35)>>,
     DetailOf(<<FloatV(1205), FloatV(302), IntV(5), FloatV(8001)>>),
     DetailOf(<<IntV(0), IntV(0), IntV(0)>>)}

Entries(rows) == [p \in 1..Len(rows) |-> [hasC |-> TRUE, C |-> rows[p]]]

\* a payload whose one data-shape block has one page block, which holds the
\* first `a` rows in DM0 and the rest in DM1
Payload(results, ds, rows, a) ==
    [results |-> results, DS |-> ds, timestamp |-> Timestamp0,
     ds_list |->
        IF ds # "present" THEN <<>>
        ELSE << [ValueDicts |-> DictsFull,
                 PH |-> IF rows = <<>> THEN <<>>
                        ELSE << [hasDM0 |-> a > 0,
                                 DM0 |-> Entries(SubSeq(rows, 1, a)),
                                 hasDM1 |-> a < Len(rows),
                                 DM1 |-> Entries(SubSeq(rows, a + 1, Len(rows)))] >>] >>]

Payloads ==
    {Payload("present", "present", rows, a) :
        rows \in UNION {[1..n -> BatchRows] : n \in 0..MaxRows}, a \in 0..1}
    \cup {Payload(r, "present", <<>>, 0) : r \in {"missing", "empty"}}
    \cup {Payload("present", d, <<>>, 0) : d \in {"missing", "empty"}}

\* The payloads of an extraction.  A row entry holds one of two vectors or no
\* 'C'; up to MaxRows entries are dealt, in order, to DM0 and DM1 of a first
\* page block and DM0 and DM1 of a second; a group left without entries is
\* an empty list (keep) or not there; a second data-shape block may follow.
ExtractVectors == {<<IntV(1)>>, <<IntV(2), IntV(3)>>}
EntryChoices ==
    {[hasC |-> TRUE, C |-> v] : v \in ExtractVectors}
        \cup {[hasC |-> FALSE, C |-> <<>>]}
PageOf(dm0, dm1, keep) ==
    [hasDM0 |-> dm0 # <<>> \/ keep, DM0 |-> dm0,
     hasDM1 |-> dm1 # <<>> \/ keep, DM1 |-> dm1]
OtherBlock ==
    [ValueDicts |-> DictsSparse,
     PH |-> << PageOf(<< [hasC |-> TRUE, C |-> <<IntV(9)>>] >>, <<>>, FALSE) >>]
SplitPayload(entries, a, b, c, keep, dicts, more) ==
    [results |-> "present", DS |-> "present", timestamp |-> Timestamp0,
     ds_list |->
        << [ValueDicts |-> dicts,
            PH |-> << PageOf(SubSeq(entries, 1, a),
                             SubSeq(entries, a + 1, b), keep),
                      PageOf(SubSeq(entries, b + 1, c),
                             SubSeq(entries, c + 1, Len(entries)), keep) >>] >>
        \o more]
EntryLists == UNION {[1..n -> EntryChoices] : n \in 0..MaxRows}

\* --------------------------------------------------------------------- state

VARIABLES
    pc,                   \* where the run is
    payload,              \* json_data
    data_rows, value_dicts, timestamp, row_date_assignments,
    csv_data,             \* what the batch loop collected
    i,                    \* rows the batch loop has been through
    decoded,              \* calls of map_data_row_to_csv made by the run
    file,                 \* the output file: opened, and its lines
    w,                    \* rows write_csv_file has been through
    exit_status,          \* -1 while running, 0 on return, 1 on sys.exit(1)
    call,                 \* the arguments of a single call
    ret                   \* what the single call returned

vars == <<pc, payload, data_rows, value_dicts, timestamp, row_date_assignments,
          csv_data, i, decoded, file, w, exit_status, call, ret>>

runVars == <<payload, data_rows, value_dicts, timestamp, row_date_assignments,
             csv_data, i, decoded, file, w, exit_status>>

NoFile == [opened |-> FALSE, lines |-> <<>>]

InitRun ==
    /\ data_rows = <<>>
    /\ value_dicts = DictsFull
    /\ timestamp = <<>>
    /\ row_date_assignments = <<>>
    /\ csv_data = <<>>
    /\ i = 0
    /\ decoded = 0
    /\ file = NoFile
    /\ w = 0
    /\ exit_status = -1

\* ------------------------------------------------------------------- the run

Init ==
    /\ pc = "start"
    /\ payload \in Payloads
    /\ InitRun
    /\ call = <<>>
    /\ ret = <<>>

\* line 699: extract_data_from_json, whose ValueError leaves the try block
Extract ==
    /\ pc = "start"
    /\ LET r == extract_data_from_json(payload)
       IN  IF r.raised
           THEN /\ pc' = "raised"
                /\ UNCHANGED <<data_rows, value_dicts, timestamp,
                               row_date_assignments>>
           ELSE /\ pc' = "decode"
                /\ data_rows' = r.data_rows
                /\ value_dicts' = r.value_dicts
                /\ timestamp' = r.timestamp
                /\ row_date_assignments' = r.row_date_assignments
    /\ UNCHANGED <<payload, csv_data, i, decoded, file, w, exit_status, call, ret>>

\* the mutation of DecodeRow without the inner try: an exception of the
\* decoder leaves the loop
DecodeRowUnguarded ==
    /\ pc = "decode"
    /\ i < Len(data_rows)
    /\ LET csv_row == map_data_row_to_csv(data_rows[i + 1], value_dicts,
                          timestamp, row_date_assignments[i + 1])
       IN  IF csv_row.outcome = "raise"
           THEN /\ pc' = "raised"
                /\ UNCHANGED <<csv_data, i>>
           ELSE /\ csv_data' = Append(csv_data, csv_row)
                /\ i' = i + 1
                /\ pc' = pc
    /\ decoded' = decoded + 1
    /\ UNCHANGED <<payload, data_rows, value_dicts, timestamp,
                   row_date_assignments, file, w, exit_status, call, ret>>

\* lines 705-712: one turn of the batch loop; an exception of the decoder is
\* caught and the row skipped, anything it returns is appended
DecodeRow ==
    /\ pc = "decode"
    /\ i < Len(data_rows)
    /\ LET csv_row == map_data_row_to_csv(data_rows[i + 1], value_dicts,
                          timestamp, row_date_assignments[i + 1])
       IN  csv_data' = IF csv_row.outcome = "raise" THEN csv_data
                       ELSE Append(csv_data, csv_row)
    /\ i' = i + 1
    /\ decoded' = decoded + 1
    /\ UNCHANGED <<pc, payload, data_rows, value_dicts, timestamp,
                   row_date_assignments, file, w, exit_status, call, ret>>

\* lines 671-673: the file is opened (and emptied) and the header written
OpenFile ==
    /\ pc = "decode"
    /\ i = Len(data_rows)
    /\ file' = [opened |-> TRUE, lines |-> <<Header>>]
    /\ w' = 0
    /\ pc' = "write"
    /\ UNCHANGED <<payload, data_rows, value_dicts, timestamp,
                   row_date_assignments, csv_data, i, decoded, exit_status,
                   call, ret>>

\* lines 675-684: one row of csv_data; row.get on None is an AttributeError,
\* which closes the file with what was written and leaves both try blocks
WriteRow ==
    /\ pc = "write"
    /\ w < Len(csv_data)
    /\ IF csv_data[w + 1].outcome = "None"
       THEN /\ pc' = "raised"
            /\ UNCHANGED <<file, w>>
       ELSE /\ file' = [file EXCEPT !.lines = Append(@, CleanRow(csv_data[w + 1].csv))]
            /\ w' = w + 1
            /\ pc' = pc
    /\ UNCHANGED <<payload, data_rows, value_dicts, timestamp,
                   row_date_assignments, csv_data, i, decoded, exit_status,
                   call, ret>>

\* lines 714-751: the file is closed, the summary printed, run returns
Finish ==
    /\ pc = "write"
    /\ w = Len(csv_data)
    /\ pc' = "done"
    /\ exit_status' = 0
    /\ UNCHANGED <<payload, data_rows, value_dicts, timestamp,
                   row_date_assignments, csv_data, i, decoded, file, w, call, ret>>

\* lines 721-723 and 753-755: the exception is re-raised, run prints it and
\* calls sys.exit(1)
Abort ==
    /\ pc = "raised"
    /\ pc' = "exited"
    /\ exit_status' = 1
    /\ UNCHANGED <<payload, data_rows, value_dicts, timestamp,
                   row_date_assignments, csv_data, i, decoded, file, w, call, ret>>

Next == Extract \/ DecodeRow \/ OpenFile \/ WriteRow \/ Finish \/ Abort

Spec == Init /\ [][Next]_vars

\* ------------------------------------------------ a call of the row decoder

InitDecode ==
    /\ pc = "call"
    /\ payload = <<>>
    /\ InitRun
    /\ \E d \in DictChoices : \E r \in DecoderRows(d) : call = DecoderCall(r, d)
    /\ ret = <<>>

Decode ==
    /\ pc = "call"
    /\ ret' = map_data_row_to_csv(call.data_row, call.value_dicts,
                                  call.timestamp, call.row_date)
    /\ pc' = "ret"
    /\ UNCHANGED <<runVars, call>>

NextDecode == Decode

SpecDecode == InitDecode /\ [][NextDecode]_vars

\* --------------------------------------------- a call of the dictionary lookup

InitLookup ==
    /\ pc = "call"
    /\ payload = <<>>
    /\ InitRun
    /\ call \in {[index |-> x, dict_key |-> key, value_dicts |-> d] :
                    x \in LookupIndexes, key \in LookupKeys, d \in DictChoices}
    /\ ret = <<>>

Lookup ==
    /\ pc = "call"
    /\ ret' = lookup_text_direct(call.index, call.dict_key, call.value_dicts)
    /\ pc' = "ret"
    /\ UNCHANGED <<runVars, call>>

NextLookup == Lookup

SpecLookup == InitLookup /\ [][NextLookup]_vars

\* ------------------------------------------- calls of the numeric coercion

InitNumeric ==
    /\ pc = "call"
    /\ payload = <<>>
    /\ InitRun
    /\ \E v \in NumericValues : call = [value |-> v]
    /\ ret = <<>>

\* get_numeric(value)
Coerce ==
    /\ pc = "call"
    /\ ret' = <<get_numeric(call.value)>>
    /\ pc' = "once"
    /\ UNCHANGED <<runVars, call>>

\* get_numeric of what the first call returned
CoerceAgain ==
    /\ pc = "once"
    /\ ret' = Append(ret, get_numeric(ret[1]))
    /\ pc' = "twice"
    /\ UNCHANGED <<runVars, call>>

NextNumeric == Coerce \/ CoerceAgain

SpecNumeric == InitNumeric /\ [][NextNumeric]_vars

\* ------------------------------------------------------ an extraction alone

InitExtract ==
    /\ pc = "start"
    /\ InitRun
    /\ \/ \E entries \in EntryLists :
            \E c \in 0..Len(entries) : \E b \in 0..c : \E a \in 0..b :
            \E keep \in BOOLEAN : \E dicts \in DictChoices :
            \E more \in {<<>>, <<OtherBlock>>} :
                payload = SplitPayload(entries, a, b, c, keep, dicts, more)
       \/ \E r \in {"missing", "empty"} :
                payload = Payload(r, "present", <<>>, 0)
       \/ \E d \in {"missing", "empty"} :
                payload = Payload("present", d, <<>>, 0)
    /\ call = <<>>
    /\ ret = <<>>

NextExtract == Extract

SpecExtract == InitExtract /\ [][NextExtract]_vars

\* ==================================================================== claims

Returns == pc = "ret"
Row == call.data_row
Csv == ret.csv
IsRecord == ret.outcome = "record"

AllNumbers(row) == \A p \in 1..Len(row) : IsNumber(row[p])
IsSmallInt(v) == IsInt(v) /\ ~Gt(v, IntV(100))
StartsWithEpochMs(row) ==
    Len(row) >= 1 /\ IsNumber(row[1]) /\ Gt(row[1], EpochMsThreshold)

\* what coercion makes of a number: the number itself, '' for zero
Coerced(v) == IF v.hi = 0 /\ v.lo = 0 THEN Empty ELSE v

SummaryFieldsOf(row) ==
    /\ IsRecord
    /\ Csv.oil_production = Coerced(row[1])
    /\ Csv.gas_production = Coerced(row[2])
    /\ Csv.quantity = Coerced(row[3])
    /\ Csv.oil_equivalents_boe = Coerced(row[4])

\* C1 as stated: every length-4 row vector of numbers, small integers
\* included, is returned as a summary record with oil, gas, quantity and BOE
\* the coerced elements 0, 1, 2 and 3.
C1_EveryNumericRowIsSummary ==
    (Returns /\ Len(Row) = 4 /\ AllNumbers(Row)) => SummaryFieldsOf(Row)

\* C1 as amended: a length-4 row vector of numbers in which every integer is
\* greater than 100 is returned as a summary record with oil, gas, quantity and
\* BOE the coerced elements 0, 1, 2 and 3 (zero written as ''); with an integer
\* of at most 100 in it the row is not a summary row: it is discarded, or, when
\* it starts with an epoch-millisecond value, returned with quantity left ''.
C1_SummaryOfNumbersAbove100 ==
    (Returns /\ Len(Row) = 4 /\ AllNumbers(Row)) =>
        IF \E p \in 1..4 : IsSmallInt(Row[p])
        THEN \/ ret.outcome = "None" /\ ~StartsWithEpochMs(Row)
             \/ IsRecord /\ StartsWithEpochMs(Row) /\ Csv.quantity = Empty
        ELSE SummaryFieldsOf(Row)

C1_Witness ==
    /\ Returns /\ IsRecord
    /\ Row = <<IntV(101), FloatV(0), FloatV(1205), TS1>>
    /\ Csv.oil_production = IntV(101)
    /\ Csv.gas_production = Empty
    /\ Csv.oil_equivalents_boe = TS1

\* C2: a length-4 row vector whose first element is a number above 1e12,
\* whatever elements 1-3 are (floats, strings, integers), is returned as a
\* timestamped summary: date from element 0, oil, gas and BOE the coerced
\* elements 1, 2 and 3, quantity ''.
C2_TimestampedSummary ==
    (/\ Returns /\ Len(Row) = 4 /\ StartsWithEpochMs(Row)
     /\ \A p \in 2..4 : Row[p].k \in {"int", "float", "str"}) =>
        /\ IsRecord
        /\ Csv.date = convert_timestamp_to_date(Row[1])
        /\ Csv.oil_production = get_numeric(Row[2])
        /\ Csv.gas_production = get_numeric(Row[3])
        /\ Csv.oil_equivalents_boe = get_numeric(Row[4])
        /\ Csv.quantity = Empty

Populated(csv_row) ==
    \/ csv_row.oil_production # Empty
    \/ csv_row.gas_production # Empty
    \/ csv_row.oil_equivalents_boe # Empty

\* C3 as stated: every returned record, on any branch, has an installation
\* and at least one of oil, gas and BOE.
C3_EveryRecordHasInstallation ==
    (Returns /\ IsRecord) => (Csv.installation # <<>> /\ Populated(Csv))

\* C3 as amended: a record returned for a row vector of length other than 4
\* (the detail branch) has an installation and at least one of oil, gas and
\* BOE; a record of the length-4 summary branches has no installation.
C3_DetailRecordHasInstallation ==
    (Returns /\ IsRecord) =>
        IF Len(Row) = 4 THEN Csv.installation = <<>>
        ELSE Len(Row) >= 9 /\ Csv.installation # <<>> /\ Populated(Csv)

C3_Witness ==
    /\ Returns /\ IsRecord
    /\ Len(Row) = 9
    /\ Csv.installation = <<"P", "1">>
    /\ Csv.oil_production = Empty /\ Csv.gas_production = Empty
    /\ Csv.oil_equivalents_boe # Empty

\* C7: a call never raises: it returns a record or the discard signal.
C7_NeverRaises == Returns => ret.outcome \in {"record", "None"}

\* the detail rows that reach the production assignment
ResolvesInstallation ==
    /\ Len(Row) >= 9
    /\ ~StartsWithEpochMs(Row)
    /\ Row[1].k = "int" /\ Row[1].hi = 0 /\ Row[1].lo >= 0
    /\ "D0" \in DOMAIN call.value_dicts
    /\ Row[1].lo \div 10 < Len(call.value_dicts.D0)
    /\ \E p \in 1..Len(call.value_dicts.D0[Row[1].lo \div 10 + 1]) :
            call.value_dicts.D0[Row[1].lo \div 10 + 1][p] # " "

\* the non-zero production values of the row, and the position (from 0) of
\* the first that is a whole number in 1..1000, or -1
Produced == ProductionValues(Row, 6)
WholeInRange(v) == v.hi = 0 /\ v.lo % 10 = 0 /\ v.lo >= 10 /\ v.lo <= 10000
FirstWhole ==
    IF \E p \in 1..Len(Produced) : WholeInRange(Produced[p])
    THEN (CHOOSE p \in 1..Len(Produced) :
            /\ WholeInRange(Produced[p])
            /\ \A q \in 1..(p - 1) : ~WholeInRange(Produced[q])) - 1
    ELSE -1

\* C8: with at least 3 production values and the first whole number in
\* [1,1000] at position k >= 2, the record has oil = entry 0, gas = entry 1,
\* quantity = entry k and BOE = entry k+1 when there is one, whatever the type.
C8_TwoBeforeQuantity ==
    (Returns /\ ResolvesInstallation /\ Len(Produced) >= 3 /\ FirstWhole >= 2) =>
        /\ IsRecord
        /\ NumEq(Csv.oil_production, Produced[1]) /\ IsNumber(Csv.oil_production)
        /\ NumEq(Csv.gas_production, Produced[2]) /\ IsNumber(Csv.gas_production)
        /\ NumEq(Csv.quantity, Produced[FirstWhole + 1]) /\ IsNumber(Csv.quantity)
        /\ IF FirstWhole + 2 <= Len(Produced)
           THEN /\ NumEq(Csv.oil_equivalents_boe, Produced[FirstWhole + 2])
                /\ IsNumber(Csv.oil_equivalents_boe)
           ELSE Csv.oil_equivalents_boe = Empty

\* values [120.5, "1,200.5", 3, 90.0] under type "Gas" (a-acute)
C8_Witness ==
    /\ Returns /\ IsRecord
    /\ Len(Row) = 10
    /\ SubSeq(Row, 7, 10) =
            <<FloatV(1205), StrV(<<"1", ",", "2", "0", "0", ".", "5">>),
              IntV(3), FloatV(900)>>
    /\ Csv.type = <<"G", "a_acute", "s">>
    /\ Csv.oil_production = FloatV(1205)
    /\ Csv.gas_production = FloatV(12005)
    /\ Csv.quantity = IntV(3)
    /\ Csv.oil_equivalents_boe = FloatV(900)

\* "gas" or "g-a-acute-s" in the text, in any case
SaysGas(text) ==
    \E p \in 1..(Len(text) - 2) :
        /\ text[p] \in {"g", "G"}
        /\ text[p + 1] \in {"a", "A", "a_acute", "A_acute"}
        /\ text[p + 2] \in {"s", "S"}

\* C9: with at least 3 production values and the first whole number in
\* [1,1000] at position 1, the one entry before it is gas (oil '') when the
\* type says gas in any case, and oil (gas '') otherwise; BOE is entry 2.
C9_OneBeforeQuantity ==
    (Returns /\ ResolvesInstallation /\ Len(Produced) >= 3 /\ FirstWhole = 1) =>
        /\ IsRecord
        /\ IF SaysGas(Csv.type)
           THEN /\ NumEq(Csv.gas_production, Produced[1])
                /\ IsNumber(Csv.gas_production)
                /\ Csv.oil_production = Empty
           ELSE /\ NumEq(Csv.oil_production, Produced[1])
                /\ IsNumber(Csv.oil_production)
                /\ Csv.gas_production = Empty
        /\ NumEq(Csv.oil_equivalents_boe, Produced[3])
        /\ IsNumber(Csv.oil_equivalents_boe)
        /\ NumEq(Csv.quantity, Produced[2])

\* values [120.5, 3, 90.0] under type "GAS"
C9_Witness ==
    /\ Returns /\ IsRecord
    /\ Len(Row) = 9
    /\ SubSeq(Row, 7, 9) = <<FloatV(1205), IntV(3), FloatV(900)>>
    /\ Csv.type = <<"G", "A", "S">>
    /\ Csv.gas_production = FloatV(1205)
    /\ Csv.oil_production = Empty
    /\ Csv.oil_equivalents_boe = FloatV(900)

\* the entry a lookup names, when it names one
NamesEntry ==
    /\ call.dict_key \in DOMAIN call.value_dicts
    /\ call.index.k = "int" /\ call.index.hi = 0 /\ call.index.lo >= 0
    /\ call.index.lo \div 10 < Len(call.value_dicts[call.dict_key])
NamedEntry == call.value_dicts[call.dict_key][call.index.lo \div 10 + 1]

\* C10: the lookup returns the dictionary's entry when the index is a
\* non-negative integer within the bounds of a dictionary of the mapping and
\* the entry is not blank, and '' for every other index and dictionary name.
C10_LookupTotal ==
    Returns =>
        IF NamesEntry /\ \E p \in 1..Len(NamedEntry) : NamedEntry[p] # " "
        THEN ret = NamedEntry
        ELSE ret = <<>>

C10_Witness ==
    /\ Returns
    /\ call.index = IntV(2) /\ call.dict_key = "D2"
    /\ ret = <<"G", "A", "S">>

\* ------------------------------------------------------------ claims: the run

PassesStructuralChecks == payload.results = "present" /\ payload.DS = "present"
Ended == pc \in {"done", "exited"}

\* the lines of the records the decoder returns for the payload's row
\* vectors, in input order
RECURSIVE RecordLines(_, _)
RecordLines(rows, dates) ==
    IF rows = <<>> THEN <<>>
    ELSE LET m == map_data_row_to_csv(Head(rows), payload.ds_list[1].ValueDicts,
                                      payload.timestamp, Head(dates))
         IN  (IF m.outcome = "record" THEN <<CleanRow(m.csv)>> ELSE <<>>)
                \o RecordLines(Tail(rows), Tail(dates))

\* C4: for a payload that passes the structural checks the run completes
\* without error and the file holds the header and one line per row vector the
\* decoder returned a record for, in input order; discarded row vectors are
\* left out and never abort the run or leave a partly written table.
C4_CompleteTable ==
    (PassesStructuralChecks /\ Ended) =>
        /\ pc = "done"
        /\ exit_status = 0
        /\ file.opened
        /\ file.lines = <<Header>> \o RecordLines(data_rows, row_date_assignments)

\* C5: with results or the data-shape block list missing or empty, the
\* extractor raises, the error is propagated, the output file is never opened
\* or written, no row is decoded and the run ends by exiting with status 1.
C5_StructuralErrorAborts ==
    (pc # "start" /\ ~PassesStructuralChecks) =>
        /\ pc \in {"raised", "exited"}
        /\ ~file.opened /\ file.lines = <<>>
        /\ decoded = 0 /\ csv_data = <<>> /\ data_rows = <<>>
        /\ exit_status = IF pc = "exited" THEN 1 ELSE -1

C5_Witness ==
    /\ payload.results = "present" /\ payload.DS = "empty"
    /\ pc = "exited" /\ exit_status = 1
    /\ ~file.opened

Extracted == pc # "start" /\ PassesStructuralChecks

\* the last row vector up to position n that sets the date, or 0
LastSetting(sets(_), n) ==
    IF \E j \in 1..n : sets(data_rows[j])
    THEN CHOOSE j \in 1..n :
            sets(data_rows[j]) /\ \A q \in (j + 1)..n : ~sets(data_rows[q])
    ELSE 0

DatesFollow(sets(_)) ==
    /\ Len(row_date_assignments) = Len(data_rows)
    /\ \A n \in 1..Len(data_rows) :
        row_date_assignments[n] =
            IF LastSetting(sets, n) = 0 THEN <<>>
            ELSE convert_timestamp_to_date(data_rows[LastSetting(sets, n)][1])

SetsDateAtAnyLength(row) == StartsWithEpochMs(row)
SetsDateAtLength1Or4(row) ==
    StartsWithEpochMs(row) /\ (Len(row) = 1 \/ Len(row) >= 4)

\* C6 as stated: one date per row vector, the date at position i being that
\* of the first element of the latest row up to i that starts with a number
\* above 1e12, whatever that row's length, or '' when there is none.
C6_DateOfLatestTimestamp == Extracted => DatesFollow(SetsDateAtAnyLength)

\* C6 as amended: one date per row vector, the date at position i being that
\* of the first element of the latest row up to i that starts with a number
\* above 1e12 and has length 1 or at least 4, or '' when there is none; a row
\* of length 2 or 3 leaves the date as it was.
C6_DateOfLatestTimestampOfLength1Or4 ==
    Extracted => DatesFollow(SetsDateAtLength1Or4)

C6_Witness ==
    /\ Extracted
    /\ data_rows = << <<TS1>>, <<TS2, FloatV(15)>>,
                      <<FloatV(1205), FloatV(302), FloatV(50), FloatV(8001)>> >>
    /\ row_date_assignments[3] = <<"2", "0", "2", "3", "-", "1", "1", "-", "1", "4">>

\* what the decoder gives for the first n row vectors, the calls that raise
\* left out
RECURSIVE ResultsOfNonRaising(_)
ResultsOfNonRaising(n) ==
    IF n = 0 THEN <<>>
    ELSE LET m == map_data_row_to_csv(data_rows[n], value_dicts, timestamp,
                                      row_date_assignments[n])
         IN  ResultsOfNonRaising(n - 1)
                \o (IF m.outcome = "raise" THEN <<>> ELSE <<m>>)

\* C13: a row vector whose decoding raises adds nothing to the collected
\* results and does not end the loop: after i turns the results are those of
\* the non-raising row vectors among the first i, in order, every one of
\* them decoded, and the loop is left only once every row vector has had its
\* turn.
C13_RaisingRowIsSkipped ==
    /\ csv_data = ResultsOfNonRaising(i)
    /\ decoded = i
    /\ pc \notin {"start", "decode"} => i = Len(data_rows)

\* a raising row vector between two summary rows
C13_Witness ==
    /\ pc = "write"
    /\ Len(data_rows) = 3
    /\ data_rows[2] = <<Null, FloatV(15), FloatV(25), FloatV(35)>>
    /\ decoded = 3
    /\ Len(csv_data) = 2
    /\ csv_data[1].outcome = "record" /\ csv_data[2].outcome = "record"
    /\ csv_data[2].csv.oil_production = FloatV(1205)
    /\ data_rows[3] = <<FloatV(1205), FloatV(302), FloatV(50), FloatV(8001)>>

\* ---------------------------------------------------- claims: the extraction

\* the row entries with a 'C' of the DM0 (g = 0) and DM1 (g = 1) groups of
\* the page blocks ph_list, each as <<page, g, position in its group>>
GroupOf(pb, g) ==
    IF g = 0 THEN (IF pb.hasDM0 THEN pb.DM0 ELSE <<>>)
    ELSE (IF pb.hasDM1 THEN pb.DM1 ELSE <<>>)
Slots(ph_list) ==
    {x \in (1..Len(ph_list)) \X {0, 1} \X (1..MaxRows) :
        /\ x[3] <= Len(GroupOf(ph_list[x[1]], x[2]))
        /\ GroupOf(ph_list[x[1]], x[2])[x[3]].hasC}
ComesBefore(x, y) ==
    \/ x[1] < y[1]
    \/ x[1] = y[1] /\ x[2] < y[2]
    \/ x[1] = y[1] /\ x[2] = y[2] /\ x[3] < y[3]
PlaceOf(x, slots) == Cardinality({y \in slots : ComesBefore(y, x)}) + 1

\* C14: the row vectors returned are the C vectors of the row entries of the
\* first data-shape block, one per entry that has a C: page block after page
\* block, in a page block DM0's before DM1's, in a group in payload order;
\* the dictionaries returned are the ValueDicts of that first block.
C14_RowsInPayloadOrder ==
    Extracted =>
        LET block == payload.ds_list[1]
            slots == Slots(block.PH)
        IN  /\ Len(data_rows) = Cardinality(slots)
            /\ \A x \in slots :
                    data_rows[PlaceOf(x, slots)] =
                        GroupOf(block.PH[x[1]], x[2])[x[3]].C
            /\ value_dicts = block.ValueDicts

\* DM0 of the first page block holds an entry without C, its DM1 and DM0 of
\* the second page block a vector each, and a second data-shape block follows
C14_Witness ==
    /\ Extracted
    /\ Len(payload.ds_list) = 2
    /\ payload.ds_list[1].ValueDicts = DictsFull
    /\ payload.ds_list[1].PH[1].DM0 = << [hasC |-> FALSE, C |-> <<>>] >>
    /\ payload.ds_list[1].PH[1].DM1 = << [hasC |-> TRUE, C |-> <<IntV(1)>>] >>
    /\ payload.ds_list[1].PH[2].DM0 =
            << [hasC |-> TRUE, C |-> <<IntV(2), IntV(3)>>] >>
    /\ data_rows = << <<IntV(1)>>, <<IntV(2), IntV(3)>> >>
    /\ value_dicts = DictsFull

\* ------------------------------------------- claims: the returned records

NumericFields ==
    {"oil_production", "gas_production", "oil_equivalents_boe", "quantity"}

\* C12: in every record returned, on the summary, timestamped-summary and
\* detail branches alike, each of oil_production, gas_production,
\* oil_equivalents_boe and quantity is the empty marker or a number other
\* than zero.
C12_NumericFieldsNeverZero ==
    (Returns /\ IsRecord) =>
        \A f \in NumericFields :
            Csv[f] = Empty \/ (IsNumber(Csv[f]) /\ ~IsZero(Csv[f]))

\* a summary row with 0.0 and "0" in it
C12_Witness ==
    /\ Returns /\ IsRecord
    /\ Row = <<FloatV(1205), FloatV(0), StrV(<<"0">>), IntV(101)>>
    /\ Csv.oil_production = FloatV(1205)
    /\ Csv.gas_production = Empty
    /\ Csv.quantity = Empty
    /\ Csv.oil_equivalents_boe = IntV(101)

\* C15: a row vector of length 0 or 1 is discarded whatever its one element
\* is, an epoch-millisecond timestamp included.
C15_ShortRowDiscarded ==
    (Returns /\ Len(Row) <= 1) => ret.outcome = "None"

C15_Witness ==
    /\ Returns
    /\ Row = <<TS1>>
    /\ ret.outcome = "None"

\* C16: a row vector of length 2 or more, other than 4, whose first element
\* is a number above 1e12 is discarded; one of length 9 or more is not
\* decoded as a detail row.
C16_TimestampFirstDiscarded ==
    (Returns /\ Len(Row) >= 2 /\ Len(Row) # 4 /\ StartsWithEpochMs(Row)) =>
        ret.outcome = "None"

\* a row of length 10 that starts with 1700000000000 and carries four
\* production values
C16_Witness ==
    /\ Returns
    /\ Row = Prefix(TS1, IntV(0))
                \o <<FloatV(1205), StrV(<<"1", ",", "2", "0", "0", ".", "5">>),
                     IntV(3), FloatV(900)>>
    /\ ret.outcome = "None"

\* the positions from index 6 on whose element coerces to a number other than
\* zero
CoercesToNumber(v) == get_numeric(v) # Empty
ProductionPositions == {p \in 7..Len(Row) : CoercesToNumber(Row[p])}

NextProductionPosition ==
    CHOOSE p \in ProductionPositions \ {7} :
        \A q \in ProductionPositions \ {7} : p <= q

IsDecimalLiteral(chars) ==
    LET t == Strip(RemoveCommas(chars))
        body == IF t # <<>> /\ t[1] = "-" THEN Tail(t) ELSE t
    IN  /\ \E p \in 1..Len(body) : IsDigit(body[p])
        /\ \A p \in 1..Len(body) : IsDigit(body[p]) \/ body[p] = "."
        /\ Cardinality({p \in 1..Len(body) : body[p] = "."}) <= 1

ZeroInputs ==
    {IntV(0), FloatV(0), StrV(<<"0">>), StrV(<<"0", ".", "0">>)}

\* C11: coercing a non-zero number returns that number and coercing the
\* result again returns it unchanged; 0, "0" and "0.0" give the empty marker,
\* and so do null and every text that is not a number.
C11_CoercionOfNumbersZerosAndJunk ==
    (pc \in {"once", "twice"}) =>
        /\ (IsNumber(call.value) /\ ~IsZero(call.value)) =>
                /\ ret[1] = call.value
                /\ pc = "twice" => ret[2] = call.value
        /\ call.value \in ZeroInputs => ret[1] = Empty
        /\ call.value = Null => ret[1] = Empty
        /\ (IsStr(call.value) /\ ~IsDecimalLiteral(call.value.s)) =>
                ret[1] = Empty

C11_Witness ==
    /\ pc = "twice"
    /\ call.value = FloatV(1205)
    /\ ret = <<FloatV(1205), FloatV(1205)>>

====
